---- MODULE Spec2Model ----
(***************************************************************************)
(* DBLite (src/v1/dblite.py): an in-memory key-value store with typed      *)
(* entries (string, hash, list, set), per-key TTL expiry kept in a heap    *)
(* plus a map, snapshot persistence, and a connection handler that         *)
(* dispatches decoded requests to the engine.                              *)
(***************************************************************************)
EXTENDS Integers, Sequences, FiniteSets, TLC

(***************************************************************************)
(* Bounds and input domains of the model.                                  *)
(***************************************************************************)
\* the number of connections clients open
MaxConns == 2
\* the configured max_clients
MaxClients == 1
\* the number of requests a client sends on one connection
MaxReqs == 2
\* the wall clock stops advancing at MaxTime
MaxTime == 2
\* EXPIRE is not issued once the expiry heap holds MaxHeap entries
MaxHeap == 2
\* LPUSH is not issued when the list would grow beyond MaxLen elements
MaxLen == 2

\* keys are byte strings; the integers stand for two keys in byte order
Keys == {1, 2}
\* the keys clients use with list, hash and set commands
TypedKeys == {1}
\* the keys clients use while snapshots are taken
SnapKeys == {1}
\* scalar payloads sent by clients
Vals == {"a", "b"}
\* hash fields sent by clients
Fields == {"f"}
\* the seconds arguments of EXPIRE
Secs == {1, 2}
\* the argument tuples of LPUSH and SADD
ArgLists == {<<"a">>, <<"a", "b">>}
\* snapshot paths: a file is written at "dump", never at "nofile"
Paths == {"dump", "nofile"}
\* the connections clients open
Conns == 1..MaxConns
\* the threads of the thread-per-connection server that run a command
Threads == {1, 2}

(***************************************************************************)
(* Datatype tags, dblite.py lines 128-131.                                 *)
(***************************************************************************)
KV == 0
HASH == 1
QUEUE == 2
SET == 3

VARIABLES
    kv,          \* self.kv: key -> Value(data_type, value)
    expiry,      \* self.expiry: the heap of <<eta, key>>, in pop order
    expiry_map,  \* self.expiry_map: key -> eta
    now,         \* the wall clock, what time.time() returns
    disk,        \* the file system: path -> pickled snapshot
    saved,       \* the engine state at the last SAVE, and whether FLUSHALL followed
    last,        \* the last command executed and its result
    use_gevent,  \* self.use_gevent: pool of greenlets, or a thread per connection
    accepting,   \* the listener is in serve_forever
    stopped,     \* the connections whose handler was sent SHUTDOWN
    pc,          \* connection -> where its handle_connection stands
    resp,        \* connection -> the response its handler is about to write
    sent,        \* connection -> the frames written to its socket
    nreq,        \* connection -> the number of requests read from it
    stats,       \* self.stats
    thr,         \* thread -> the command it runs, where it stands, its locals
    wdata,       \* the value handed to write_response
    wbuf,        \* the bytes write_response has written, one character each
    rdata        \* what handle_request made of these bytes

files == <<disk, saved>>
server == <<use_gevent, accepting, stopped, pc, resp, sent, nreq, stats>>
codec == <<wdata, wbuf, rdata>>
vars == <<kv, expiry, expiry_map, now, disk, saved, last,
          use_gevent, accepting, stopped, pc, resp, sent, nreq, stats, thr,
          wdata, wbuf, rdata>>

(***************************************************************************)
(* Values and results.                                                     *)
(***************************************************************************)
\* Value = namedtuple('Value', ('data_type', 'value'))
Value(data_type, value) == [data_type |-> data_type, value |-> value]

\* {} : a dict with no entry
EmptyDict == [x \in {} |-> 0]

\* the python type of a result, as the encoder's isinstance chain sees it
PyType(data_type) ==
    CASE data_type = KV -> "bytes"
      [] data_type = HASH -> "dict"
      [] data_type = QUEUE -> "deque"
      [] data_type = SET -> "set"

RNone == [kind |-> "None", val |-> 0]
RInt(n) == [kind |-> "int", val |-> n]
RStr(s) == [kind |-> "str", val |-> s]
RBytes(b) == [kind |-> "bytes", val |-> b]
RList(members) == [kind |-> "list", val |-> members]
RPayload(v) == [kind |-> PyType(v.data_type), val |-> v.value]
RError(msg) == [kind |-> "Error", val |-> msg]
RInfo(keys) == [kind |-> "info", val |-> keys]

WRONGTYPE == RError("WRONGTYPE Operation against a key holding the wrong kind of value")
ARITY == RError("TypeError")

\* handle_request has not been called
Unread == [raised |-> "unread", data |-> RNone, sf |-> <<>>]

\* a thread that has not been given a command
IdleThread == [pc |-> "idle", op |-> "none", key |-> 0, args |-> <<>>,
               data_type |-> -1, i |-> 0, added |-> 0, res |-> RNone]

\* the engine: the three containers every command works on
Engine(k, h, m) == [kv |-> k, expiry |-> h, expiry_map |-> m]
Out(e, res) == [e |-> e, res |-> res]

\* dict.pop(key, None) and del dict[key]
DictPop(d, key) == [k \in (DOMAIN d) \ {key} |-> d[k]]
\* dict[key] = v
DictSet(d, key, v) == [k \in (DOMAIN d) \cup {key} |-> IF k = key THEN v ELSE d[k]]

(***************************************************************************)
(* The expiry heap.  heapq keeps a binary heap of (eta, key) tuples; only  *)
(* its pop order is observable, so the sequence is kept in that order:     *)
(* by eta, ties by key.                                                    *)
(***************************************************************************)
TupleLess(x, y) == x[1] < y[1] \/ (x[1] = y[1] /\ x[2] < y[2])

RECURSIVE heappush(_, _)
heappush(heap, item) ==
    IF heap = <<>> THEN <<item>>
    ELSE IF TupleLess(item, Head(heap)) THEN <<item>> \o heap
    ELSE <<Head(heap)>> \o heappush(Tail(heap), item)

heappop(heap) == Tail(heap)

\* check_expired taking any deadline for a passed one
check_expired_AnyDeadline(e, key, ts) == key \in DOMAIN e.expiry_map

\* check_expired(key): ts is a fresh time.time()
check_expired(e, key, ts) ==
    key \in DOMAIN e.expiry_map /\ ts > e.expiry_map[key]

\* clean_expired with the removal of the key from kv left out
RECURSIVE clean_expired_KeepsKey(_, _)
clean_expired_KeepsKey(e, ts) ==
    IF e.expiry = <<>> THEN e
    ELSE LET eta == Head(e.expiry)[1]
             key == Head(e.expiry)[2]
         IN IF eta > ts THEN e
            ELSE IF key \in DOMAIN e.expiry_map /\ e.expiry_map[key] = eta
                 THEN clean_expired_KeepsKey(Engine(e.kv, heappop(e.expiry),
                                                    DictPop(e.expiry_map, key)), ts)
                 ELSE clean_expired_KeepsKey(Engine(e.kv, heappop(e.expiry),
                                                    e.expiry_map), ts)

\* clean_expired removing the key of every entry it pops
RECURSIVE clean_expired_NoMismatch(_, _)
clean_expired_NoMismatch(e, ts) ==
    IF e.expiry = <<>> THEN e
    ELSE LET eta == Head(e.expiry)[1]
             key == Head(e.expiry)[2]
         IN IF eta > ts THEN e
            ELSE clean_expired_NoMismatch(Engine(DictPop(e.kv, key), heappop(e.expiry),
                                                 DictPop(e.expiry_map, key)), ts)

\* clean_expired(): pops every heap entry with eta <= ts; an entry removes
\* its key only when the map still holds that eta
RECURSIVE clean_expired(_, _)
clean_expired(e, ts) ==
    IF e.expiry = <<>> THEN e
    ELSE LET eta == Head(e.expiry)[1]
             key == Head(e.expiry)[2]
         IN IF eta > ts THEN e
            ELSE IF key \in DOMAIN e.expiry_map /\ e.expiry_map[key] = eta
                 THEN clean_expired(Engine(DictPop(e.kv, key), heappop(e.expiry),
                                           DictPop(e.expiry_map, key)), ts)
                 ELSE clean_expired(Engine(e.kv, heappop(e.expiry), e.expiry_map), ts)

unexpire(e, key) == Engine(e.kv, e.expiry, DictPop(e.expiry_map, key))

(***************************************************************************)
(* enforce_datatype: the wrapper of the LIST/HASH/SET commands.            *)
(***************************************************************************)
EmptyOf(data_type) ==
    CASE data_type = KV -> ""
      [] data_type = HASH -> EmptyDict
      [] data_type = QUEUE -> <<>>
      [] data_type = SET -> {}

\* lines 206-208: the sweep, then the per-key check (which pops the key
\* from kv only)
SweepFor(e, key, ts1, ts2) ==
    LET c == clean_expired(e, ts1)
    IN IF check_expired(c, key, ts2)
       THEN Engine(DictPop(c.kv, key), c.expiry, c.expiry_map)
       ELSE c

\* the wrapper with the type check left out: a key of another type gets
\* the command's empty container
inner_NoTypeCheck(e, data_type, key, ts1, ts2) ==
    LET s == SweepFor(e, key, ts1, ts2)
    IN IF key \in DOMAIN s.kv /\ s.kv[key].data_type = data_type
       THEN [ok |-> TRUE, e |-> s]
       ELSE [ok |-> TRUE,
             e |-> Engine(DictSet(s.kv, key, Value(data_type, EmptyOf(data_type))),
                          s.expiry, s.expiry_map)]

\* lines 209-222: ok is FALSE when WRONGTYPE is raised
inner(e, data_type, key, ts1, ts2) ==
    LET s == SweepFor(e, key, ts1, ts2)
    IN IF key \in DOMAIN s.kv
       THEN [ok |-> s.kv[key].data_type = data_type, e |-> s]
       ELSE [ok |-> TRUE,
             e |-> Engine(DictSet(s.kv, key, Value(data_type, EmptyOf(data_type))),
                          s.expiry, s.expiry_map)]

SetPayload(e, key, data_type, payload) ==
    Engine(DictSet(e.kv, key, Value(data_type, payload)), e.expiry, e.expiry_map)

(***************************************************************************)
(* The commands.                                                           *)
(***************************************************************************)
\* kv_set with the call of unexpire left out
kv_set_KeepsDeadline(e, key, value) ==
    Out(Engine(DictSet(e.kv, key, Value(KV, value)), e.expiry, e.expiry_map), RStr("OK"))

kv_set(e, key, value) ==
    LET u == unexpire(e, key)
    IN Out(Engine(DictSet(u.kv, key, Value(KV, value)), u.expiry, u.expiry_map),
           RStr("OK"))

kv_get(e, key, ts1, ts2) ==
    LET c == clean_expired(e, ts1)
    IN IF check_expired(c, key, ts2)
       THEN Out(Engine(DictPop(c.kv, key), c.expiry, c.expiry_map), RNone)
       ELSE IF key \in DOMAIN c.kv THEN Out(c, RPayload(c.kv[key]))
       ELSE Out(c, RNone)

kv_delete(e, key, ts1) ==
    LET c == clean_expired(e, ts1)
    IN IF key \in DOMAIN c.kv
       THEN Out(unexpire(Engine(DictPop(c.kv, key), c.expiry, c.expiry_map), key), RInt(1))
       ELSE Out(c, RInt(0))

kv_exists(e, key, ts1, ts2) ==
    LET c == clean_expired(e, ts1)
    IN IF check_expired(c, key, ts2)
       THEN Out(Engine(DictPop(c.kv, key), c.expiry, c.expiry_map), RInt(0))
       ELSE Out(c, RInt(IF key \in DOMAIN c.kv THEN 1 ELSE 0))

\* extendleft putting the values in front in the order given
extendleft_KeepsOrder(q, values) == values \o q

\* deque.extendleft(values): each value in turn goes to the front
RECURSIVE extendleft(_, _)
extendleft(q, values) ==
    IF values = <<>> THEN q
    ELSE extendleft(<<Head(values)>> \o q, Tail(values))

lpush(e, key, values, ts1, ts2) ==
    LET r == inner(e, QUEUE, key, ts1, ts2)
    IN IF ~r.ok THEN Out(r.e, WRONGTYPE)
       ELSE LET q == extendleft(r.e.kv[key].value, values)
            IN Out(SetPayload(r.e, key, QUEUE, q), RInt(Len(q)))

\* lpop leaving a missing key missing
lpop_NoCreate(e, key, ts1, ts2) ==
    LET s == SweepFor(e, key, ts1, ts2)
    IN IF key \notin DOMAIN s.kv THEN Out(s, RNone)
       ELSE IF s.kv[key].data_type # QUEUE THEN Out(s, WRONGTYPE)
       ELSE IF s.kv[key].value = <<>> THEN Out(s, RNone)
       ELSE Out(SetPayload(s, key, QUEUE, Tail(s.kv[key].value)),
                RBytes(Head(s.kv[key].value)))

lpop(e, key, ts1, ts2) ==
    LET r == inner(e, QUEUE, key, ts1, ts2)
    IN IF ~r.ok THEN Out(r.e, WRONGTYPE)
       ELSE LET q == r.e.kv[key].value
            IN IF q = <<>> THEN Out(r.e, RNone)
               ELSE Out(SetPayload(r.e, key, QUEUE, Tail(q)), RBytes(Head(q)))

\* hset storing a new dict when the key holds another type
hset_Overwrites(e, key, field, value, ts1, ts2) ==
    LET s == SweepFor(e, key, ts1, ts2)
        h == IF key \in DOMAIN s.kv /\ s.kv[key].data_type = HASH
             THEN s.kv[key].value ELSE EmptyDict
    IN Out(SetPayload(s, key, HASH, DictSet(h, field, value)), RInt(1))

hset(e, key, field, value, ts1, ts2) ==
    LET r == inner(e, HASH, key, ts1, ts2)
    IN IF ~r.ok THEN Out(r.e, WRONGTYPE)
       ELSE Out(SetPayload(r.e, key, HASH, DictSet(r.e.kv[key].value, field, value)),
                RInt(1))

\* hset called with a key and no field or value: the wrapper runs, then
\* the call of the method raises TypeError
hset_short(e, key, ts1, ts2) ==
    LET r == inner(e, HASH, key, ts1, ts2)
    IN IF ~r.ok THEN Out(r.e, WRONGTYPE) ELSE Out(r.e, ARITY)

hget(e, key, field, ts1, ts2) ==
    LET r == inner(e, HASH, key, ts1, ts2)
    IN IF ~r.ok THEN Out(r.e, WRONGTYPE)
       ELSE LET h == r.e.kv[key].value
            IN Out(r.e, IF field \in DOMAIN h THEN RBytes(h[field]) ELSE RNone)

\* the loop of sadd: one member at a time, counted when it is new
RECURSIVE sadd_loop(_, _, _)
sadd_loop(s, members, added) ==
    IF members = <<>> THEN [s |-> s, added |-> added]
    ELSE IF Head(members) \notin s
         THEN sadd_loop(s \cup {Head(members)}, Tail(members), added + 1)
         ELSE sadd_loop(s, Tail(members), added)

sadd(e, key, members, ts1, ts2) ==
    LET r == inner(e, SET, key, ts1, ts2)
    IN IF ~r.ok THEN Out(r.e, WRONGTYPE)
       ELSE LET l == sadd_loop(r.e.kv[key].value, members, 0)
            IN Out(SetPayload(r.e, key, SET, l.s), RInt(l.added))

\* list(set): the members in an order the set chooses; the result is kept
\* as the collection of members
smembers(e, key, ts1, ts2) ==
    LET r == inner(e, SET, key, ts1, ts2)
    IN IF ~r.ok THEN Out(r.e, WRONGTYPE)
       ELSE Out(r.e, RList(r.e.kv[key].value))

\* expire setting the deadline in the map and pushing nothing on the heap
expire_NoPush(e, key, seconds, ts) ==
    IF key \notin DOMAIN e.kv THEN Out(e, RInt(0))
    ELSE Out(Engine(e.kv, e.expiry, DictSet(e.expiry_map, key, ts + seconds)),
             RInt(1))

\* expire: no sweep; eta = time.time() + int(seconds)
expire(e, key, seconds, ts) ==
    IF key \notin DOMAIN e.kv THEN Out(e, RInt(0))
    ELSE LET eta == ts + seconds
         IN Out(Engine(e.kv, heappush(e.expiry, <<eta, key>>),
                       DictSet(e.expiry_map, key, eta)), RInt(1))

flush_all(e) == Out(Engine(EmptyDict, <<>>, EmptyDict), RStr("OK"))

\* info with the call of clean_expired left out
info_NoSweep(e, ts) == Out(e, RInfo(Cardinality(DOMAIN e.kv)))

info(e, ts) ==
    LET c == clean_expired(e, ts)
    IN Out(c, RInfo(Cardinality(DOMAIN c.kv)))

(***************************************************************************)
(* Snapshots.  pickle.dump writes the two dicts item by item and           *)
(* pickle.load rebuilds them; the file holds copies, not references.       *)
(***************************************************************************)
\* the keys of a dict, in byte order
RECURSIVE KeySeq(_)
KeySeq(S) ==
    IF S = {} THEN <<>>
    ELSE LET k == CHOOSE x \in S : \A y \in S : x <= y
         IN <<k>> \o KeySeq(S \ {k})

PickleDict(d) == [i \in 1..Cardinality(DOMAIN d) |->
                    <<KeySeq(DOMAIN d)[i], d[KeySeq(DOMAIN d)[i]]>>]

UnpickleDict(items) ==
    [k \in {items[i][1] : i \in DOMAIN items} |->
        (CHOOSE x \in {items[i] : i \in DOMAIN items} : x[1] = k)[2]]

\* pickle.dump({'kv': self.kv, 'expiry_map': self.expiry_map}, f)
pickle_dump(e) == [kv |-> PickleDict(e.kv), expiry_map |-> PickleDict(e.expiry_map)]

pickle_load(file) == [kv |-> UnpickleDict(file.kv),
                      expiry_map |-> UnpickleDict(file.expiry_map)]

\* save_to_disk: the new contents of the file system
save_to_disk(e, d, filename) == DictSet(d, filename, pickle_dump(e))

\* lines 317-318: the heap is rebuilt from the restored map
RECURSIVE heap_of(_, _)
heap_of(items, heap) ==
    IF items = <<>> THEN heap
    ELSE heap_of(Tail(items), heappush(heap, <<Head(items)[2], Head(items)[1]>>))

\* restore_from_disk dropping the restored deadlines
restore_NoDeadlines(e, d, filename) ==
    IF filename \notin DOMAIN d THEN Out(e, RInt(0))
    ELSE Out(Engine(pickle_load(d[filename]).kv, <<>>, EmptyDict), RInt(1))

\* restore_from_disk emptying the engine when there is no file
restore_MissingClears(e, d, filename) ==
    IF filename \notin DOMAIN d THEN Out(Engine(EmptyDict, <<>>, EmptyDict), RInt(0))
    ELSE LET state == pickle_load(d[filename])
         IN Out(Engine(state.kv, heap_of(PickleDict(state.expiry_map), <<>>),
                       state.expiry_map), RInt(1))

restore_from_disk(e, d, filename) ==
    IF filename \notin DOMAIN d THEN Out(e, RInt(0))
    ELSE LET state == pickle_load(d[filename])
         IN Out(Engine(state.kv, heap_of(PickleDict(state.expiry_map), <<>>),
                       state.expiry_map), RInt(1))

(***************************************************************************)
(* The engine as a state machine: one action per command, each run from    *)
(* start to end.  A command that reads the clock twice may find it         *)
(* advanced between the two reads.                                         *)
(***************************************************************************)
E == Engine(kv, expiry, expiry_map)

\* what the last command was, what it returned, the keys its expiry checks
\* dropped, the tag its key had before it (-1: the key was absent), and
\* the number of heap entries its sweep popped
Last(op, key, res, swept, was, popped) ==
    [op |-> op, key |-> key, res |-> res, swept |-> swept, was |-> was,
     popped |-> popped]

\* the commands that call clean_expired
SweepOps ==
    {"GET", "DELETE", "EXISTS", "LPUSH", "LPOP", "HSET", "HSET_SHORT", "HGET",
     "SADD", "SMEMBERS", "INFO"}

\* the number of heap entries a sweep at the time of the first clock read
\* pops
Popped(op) ==
    IF op \in SweepOps THEN Len(expiry) - Len(clean_expired(E, now).expiry) ELSE 0

TagOf(key) == IF key \in DOMAIN kv THEN kv[key].data_type ELSE -1

\* the keys dropped by clean_expired alone, and with the per-key check
Swept1(ts1) == (DOMAIN kv) \ DOMAIN clean_expired(E, ts1).kv
Swept2(key, ts1, ts2) == (DOMAIN kv) \ DOMAIN SweepFor(E, key, ts1, ts2).kv

Done(out, op, key, t, swept) ==
    /\ kv' = out.e.kv
    /\ expiry' = out.e.expiry
    /\ expiry_map' = out.e.expiry_map
    /\ now' = t
    /\ last' = Last(op, key, out.res, swept, TagOf(key), Popped(op))
    /\ UNCHANGED <<server, thr, codec>>

\* __init__, lines 148-151; no connection is open, no thread runs, nothing
\* is written
InitEngine ==
    /\ kv = EmptyDict
    /\ expiry = <<>>
    /\ expiry_map = EmptyDict
    /\ now = 0
    /\ disk = EmptyDict
    /\ saved = [kv |-> EmptyDict, expiry_map |-> EmptyDict, flushed |-> FALSE]
    /\ last = Last("init", 0, RNone, {}, -1, 0)
    /\ accepting = TRUE
    /\ stopped = {}
    /\ pc = [c \in Conns |-> "new"]
    /\ resp = [c \in Conns |-> RNone]
    /\ sent = [c \in Conns |-> <<>>]
    /\ nreq = [c \in Conns |-> 0]
    /\ stats = [active_connections |-> 0, commands_processed |-> 0,
                command_errors |-> 0, connections |-> 0]
    /\ thr = [t \in Threads |-> IdleThread]
    /\ wbuf = <<>>
    /\ rdata = Unread

Init == InitEngine /\ use_gevent = TRUE /\ wdata = RNone

Tick ==
    /\ now < MaxTime
    /\ now' = now + 1
    /\ last' = Last("tick", 0, RNone, {}, -1, 0)
    /\ UNCHANGED <<kv, expiry, expiry_map, files, server, thr, codec>>

Later == now..MaxTime

CmdSet(K) ==
    \E key \in K, value \in Vals :
        Done(kv_set(E, key, value), "SET", key, now, {}) /\ UNCHANGED files

CmdGet(K) ==
    \E key \in K, ts2 \in Later :
        Done(kv_get(E, key, now, ts2), "GET", key, ts2, Swept2(key, now, ts2)) /\ UNCHANGED files

CmdDelete(K) ==
    \E key \in K :
        Done(kv_delete(E, key, now), "DELETE", key, now, Swept1(now)) /\ UNCHANGED files

CmdExists(K) ==
    \E key \in K, ts2 \in Later :
        Done(kv_exists(E, key, now, ts2), "EXISTS", key, ts2, Swept2(key, now, ts2)) /\ UNCHANGED files

ListLen(key) ==
    IF key \in DOMAIN kv /\ kv[key].data_type = QUEUE THEN Len(kv[key].value) ELSE 0

CmdLpush(K) ==
    \E key \in K, values \in ArgLists, ts2 \in Later :
        /\ ListLen(key) + Len(values) <= MaxLen
        /\ Done(lpush(E, key, values, now, ts2), "LPUSH", key, ts2, Swept2(key, now, ts2))
        /\ UNCHANGED files

CmdLpop(K) ==
    \E key \in K, ts2 \in Later :
        Done(lpop(E, key, now, ts2), "LPOP", key, ts2, Swept2(key, now, ts2)) /\ UNCHANGED files

CmdHset(K) ==
    \E key \in K, field \in Fields, value \in Vals, ts2 \in Later :
        Done(hset(E, key, field, value, now, ts2), "HSET", key, ts2, Swept2(key, now, ts2)) /\ UNCHANGED files

CmdHsetShort(K) ==
    \E key \in K, ts2 \in Later :
        Done(hset_short(E, key, now, ts2), "HSET_SHORT", key, ts2, Swept2(key, now, ts2)) /\ UNCHANGED files

CmdHget(K) ==
    \E key \in K, field \in Fields, ts2 \in Later :
        Done(hget(E, key, field, now, ts2), "HGET", key, ts2, Swept2(key, now, ts2)) /\ UNCHANGED files

CmdSadd(K) ==
    \E key \in K, members \in ArgLists, ts2 \in Later :
        Done(sadd(E, key, members, now, ts2), "SADD", key, ts2, Swept2(key, now, ts2)) /\ UNCHANGED files

CmdSmembers(K) ==
    \E key \in K, ts2 \in Later :
        Done(smembers(E, key, now, ts2), "SMEMBERS", key, ts2, Swept2(key, now, ts2)) /\ UNCHANGED files

CmdExpire(K) ==
    \E key \in K, seconds \in Secs :
        /\ Len(expiry) < MaxHeap
        /\ Done(expire(E, key, seconds, now), "EXPIRE", key, now, {})
        /\ UNCHANGED files

CmdFlushAll ==
    /\ Done(flush_all(E), "FLUSHALL", 0, now, {})
    /\ saved' = [saved EXCEPT !.flushed = "dump" \in DOMAIN disk]
    /\ UNCHANGED disk

CmdSave ==
    /\ disk' = save_to_disk(E, disk, "dump")
    /\ saved' = [kv |-> kv, expiry_map |-> expiry_map, flushed |-> FALSE]
    /\ Done(Out(E, RStr("OK")), "SAVE", 0, now, {})

CmdRestore ==
    \E filename \in Paths :
        Done(restore_from_disk(E, disk, filename), "RESTORE", 0, now, {}) /\ UNCHANGED files

CmdInfo ==
    Done(info(E, now), "INFO", 0, now, Swept1(now)) /\ UNCHANGED files

(***************************************************************************)
(* Spec: the typed key-space and its expiry.  Clients use every key as a   *)
(* string key and the keys of TypedKeys as containers too.                 *)
(***************************************************************************)
Next ==
    \/ Tick
    \/ CmdSet(Keys)
    \/ CmdGet(Keys)
    \/ CmdDelete(Keys)
    \/ CmdExists(Keys)
    \/ CmdLpush(TypedKeys)
    \/ CmdLpop(TypedKeys)
    \/ CmdHset(TypedKeys)
    \/ CmdHsetShort(TypedKeys)
    \/ CmdHget(TypedKeys)
    \/ CmdSadd(TypedKeys)
    \/ CmdSmembers(TypedKeys)
    \/ CmdExpire(Keys)
    \/ CmdFlushAll
    \/ CmdInfo

Spec == Init /\ [][Next]_vars

(***************************************************************************)
(* Properties of the engine (Spec).  In a step of a command, now is the    *)
(* time of its first clock read (the sweep) and now' the time of its last  *)
(* (the per-key check).                                                    *)
(***************************************************************************)
TypedOps == {"LPUSH", "LPOP", "HSET", "HSET_SHORT", "HGET", "SADD", "SMEMBERS"}
ReadOps == {"GET", "EXISTS", "HGET", "SMEMBERS"}

ExpectedType(op) ==
    CASE op \in {"LPUSH", "LPOP"} -> QUEUE
      [] op \in {"HSET", "HSET_SHORT", "HGET"} -> HASH
      [] op \in {"SADD", "SMEMBERS"} -> SET

\* the key-space without the keys whose deadline has passed at ts
Live(ts) ==
    [k \in {x \in DOMAIN kv : x \notin DOMAIN expiry_map \/ expiry_map[x] > ts} |-> kv[k]]

\* k's deadline, if any, passes neither the sweep nor the per-key check of
\* the command taking this step
NotExpired(k) ==
    k \notin DOMAIN expiry_map \/ (expiry_map[k] > now /\ expiry_map[k] >= now')

\* C1: a LIST/HASH/SET command on an existing, unexpired key of another
\* type fails with WRONGTYPE and leaves the key-space as it was, less the
\* keys the sweep removed because their deadline had passed.
C1_TypeSafety ==
    [][\A k \in Keys :
         (/\ last'.op \in TypedOps
          /\ last'.key = k
          /\ k \in DOMAIN kv
          /\ kv[k].data_type # ExpectedType(last'.op)
          /\ NotExpired(k))
         => (last'.res = WRONGTYPE /\ kv' = Live(now))]_vars

\* a command was refused for the type of its key while another key with a
\* passed deadline was swept and a third entry stayed
C1_Witness ==
    /\ last.op \in TypedOps
    /\ last.res = WRONGTYPE
    /\ last.key \in DOMAIN kv
    /\ last.swept # {}

\* C2 as stated: a read of k after its deadline returns null/0/empty and
\* leaves k out of the key-space.
C2_Original ==
    [][\A k \in Keys :
         (/\ last'.op \in ReadOps
          /\ last'.key = k
          /\ k \in DOMAIN expiry_map
          /\ now > expiry_map[k])
         => (/\ last'.res \in {RNone, RInt(0), RList({})}
             /\ k \notin DOMAIN kv')]_vars

\* C2 (amended): a read of k at a time later than its pending deadline
\* returns null (GET, HGET), 0 (EXISTS) or no member (SMEMBERS) and drops
\* the deadline; after GET and EXISTS k is out of the key-space, after HGET
\* and SMEMBERS k holds a new empty container of the command's type.
C2_ExpirySound ==
    [][\A k \in Keys :
         (/\ last'.op \in ReadOps
          /\ last'.key = k
          /\ k \in DOMAIN expiry_map
          /\ now > expiry_map[k])
         => (/\ k \notin DOMAIN expiry_map'
             /\ last'.op = "GET" => (last'.res = RNone /\ k \notin DOMAIN kv')
             /\ last'.op = "EXISTS" => (last'.res = RInt(0) /\ k \notin DOMAIN kv')
             /\ last'.op = "HGET" =>
                    (/\ last'.res = RNone
                     /\ k \in DOMAIN kv'
                     /\ kv'[k] = Value(HASH, EmptyDict))
             /\ last'.op = "SMEMBERS" =>
                    (/\ last'.res = RList({})
                     /\ k \in DOMAIN kv'
                     /\ kv'[k] = Value(SET, {})))]_vars

\* a read has just swept its own key
C2_Witness ==
    /\ last.op \in ReadOps
    /\ last.key \in last.swept

\* C3: SET k leaves k in the key-space with no deadline, and a key with no
\* deadline stays, with no deadline, through every step that is not an
\* EXPIRE or DELETE of it or a FLUSHALL: no sweep removes it, whatever
\* stale heap entries it pops.
C3_SetClearsExpiry ==
    [][\A k \in Keys :
         /\ (last'.op = "SET" /\ last'.key = k)
                => (k \in DOMAIN kv' /\ k \notin DOMAIN expiry_map')
         /\ (/\ k \in DOMAIN kv
             /\ k \notin DOMAIN expiry_map
             /\ ~(last'.op \in {"EXPIRE", "DELETE"} /\ last'.key = k)
             /\ last'.op # "FLUSHALL")
                => (k \in DOMAIN kv' /\ k \notin DOMAIN expiry_map')]_vars

\* a string key set after EXPIRE is alive, with no deadline, at a time past
\* the old deadline, whose heap entry is still to be popped
C3_Witness ==
    \E k \in Keys :
        /\ k \in DOMAIN kv
        /\ kv[k].data_type = KV
        /\ k \notin DOMAIN expiry_map
        /\ \E i \in DOMAIN expiry : expiry[i][2] = k /\ expiry[i][1] < now

\* C6 as stated: the tag of a key never changes while the key stays in the
\* key-space.
C6_Original ==
    [][\A k \in Keys :
         (k \in DOMAIN kv /\ k \in DOMAIN kv' /\ NotExpired(k))
         => kv'[k].data_type = kv[k].data_type]_vars

\* C6 (amended): while a key stays in the key-space its tag changes only
\* when SET replaces the entry with a string entry, which SET does on a key
\* of any type; a LIST/HASH/SET command on a key of another type fails and
\* leaves the tag.
C6_TagChangesOnlyBySet ==
    [][\A k \in Keys :
         (k \in DOMAIN kv /\ k \in DOMAIN kv' /\ NotExpired(k))
         => (/\ (last'.op = "SET" /\ last'.key = k) => kv'[k].data_type = KV
             /\ ~(last'.op = "SET" /\ last'.key = k)
                    => kv'[k].data_type = kv[k].data_type
             /\ (/\ last'.op \in TypedOps
                 /\ last'.key = k
                 /\ kv[k].data_type # ExpectedType(last'.op))
                    => last'.res = WRONGTYPE)]_vars

\* a key that held a list is a string after SET
C6_Witness ==
    /\ last.op = "SET"
    /\ last.was = QUEUE
    /\ kv[last.key].data_type = KV

\* C7: the keys field of INFO is the number of keys of the key-space whose
\* deadline has not passed when INFO runs.
C7_InfoKeys ==
    [][last'.op = "INFO" => last'.res = RInfo(Cardinality(DOMAIN Live(now)))]_vars

\* INFO counted one key and left out another, swept for its deadline
C7_Witness ==
    /\ last.op = "INFO"
    /\ last.res = RInfo(1)
    /\ last.swept # {}

\* a sequence back to front
RECURSIVE Reversed(_)
Reversed(s) == IF s = <<>> THEN <<>> ELSE Reversed(Tail(s)) \o <<Head(s)>>

\* the list a list command finds at k: the stored one, or the empty list
\* when k is absent or its deadline has passed
ListAt(k) ==
    IF k \in DOMAIN kv /\ kv[k].data_type = QUEUE /\ NotExpired(k)
    THEN kv[k].value ELSE <<>>

\* k is absent, expired, or holds a list
ListOrAbsent(k) ==
    k \in DOMAIN kv /\ NotExpired(k) => kv[k].data_type = QUEUE

\* C11: on a key that holds the list L (or no entry: L empty), LPUSH of
\* v1..vn returns len(L)+n and leaves [vn, ..., v1] followed by L; LPOP
\* returns the head of L and leaves the rest, or null when L is empty, so
\* that successive LPOPs give vn, ..., v1, then L in order, then null.
C11_PushPop ==
    [][\A k \in Keys :
         /\ (last'.op = "LPUSH" /\ last'.key = k /\ ListOrAbsent(k))
              => \E values \in ArgLists :
                    /\ last'.res = RInt(Len(ListAt(k)) + Len(values))
                    /\ k \in DOMAIN kv'
                    /\ kv'[k] = Value(QUEUE, Reversed(values) \o ListAt(k))
         /\ (last'.op = "LPOP" /\ last'.key = k /\ ListOrAbsent(k))
              => /\ k \in DOMAIN kv'
                 /\ IF ListAt(k) = <<>>
                    THEN last'.res = RNone /\ kv'[k] = Value(QUEUE, <<>>)
                    ELSE /\ last'.res = RBytes(Head(ListAt(k)))
                         /\ kv'[k] = Value(QUEUE, Tail(ListAt(k)))]_vars

\* after LPUSH k a b, LPOP has returned b and left a
C11_Witness ==
    /\ last.op = "LPOP"
    /\ last.res = RBytes("b")
    /\ kv[last.key] = Value(QUEUE, <<"a">>)

\* C13: while the deadline of k lies after the clock (at every clock read
\* of the step), no step removes k but DELETE k and FLUSHALL, and GET k and
\* EXISTS k return the stored value and 1 and leave the entry and its
\* deadline as they are: no sweep removes a key before its deadline.
C13_NoPrematureExpiry ==
    [][\A k \in Keys :
         (k \in DOMAIN kv /\ k \in DOMAIN expiry_map /\ now' < expiry_map[k])
         => /\ (~(last'.op = "DELETE" /\ last'.key = k) /\ last'.op # "FLUSHALL")
                 => k \in DOMAIN kv'
            /\ (last'.op = "GET" /\ last'.key = k)
                 => (/\ last'.res = RPayload(kv[k])
                     /\ kv'[k] = kv[k]
                     /\ k \in DOMAIN expiry_map' /\ expiry_map'[k] = expiry_map[k])
            /\ (last'.op = "EXISTS" /\ last'.key = k)
                 => (/\ last'.res = RInt(1)
                     /\ kv'[k] = kv[k]
                     /\ k \in DOMAIN expiry_map' /\ expiry_map'[k] = expiry_map[k])]_vars

\* GET returned the string of a key one tick before its deadline, in a
\* step that swept another key
C13_Witness ==
    /\ last.op = "GET"
    /\ last.res = RBytes("a")
    /\ last.key \in DOMAIN expiry_map
    /\ expiry_map[last.key] = now + 1
    /\ now >= 1
    /\ last.swept # {}

\* the commands that read or write a key
KeyOps ==
    {"SET", "GET", "DELETE", "EXISTS", "LPUSH", "LPOP", "HSET", "HSET_SHORT",
     "HGET", "SADD", "SMEMBERS", "EXPIRE"}

\* C14 (as stated): every command on a key sweeps first, so that a key
\* whose deadline has passed is gone after a command on another key, and
\* EXPIRE on it returns 0 and leaves it with no entry and no deadline.
C14_Original ==
    [][\A k \in Keys :
         (/\ k \in DOMAIN kv
          /\ k \in DOMAIN expiry_map
          /\ expiry_map[k] < now
          /\ last'.op \in KeyOps)
         => /\ last'.key # k => k \notin DOMAIN kv'
            /\ (last'.op = "EXPIRE" /\ last'.key = k)
                 => (/\ last'.res = RInt(0)
                     /\ k \notin DOMAIN kv'
                     /\ k \notin DOMAIN expiry_map')]_vars

\* C15: a key leaves the key-space through an expiry check only when its
\* current deadline, the one of the expiry map, has passed; a sweep pops
\* every heap entry that is due, and the entries that are not the current
\* deadline of their key (superseded by a later EXPIRE, or left by DELETE
\* or SET) remove nothing: a key with no deadline or with a current
\* deadline ahead stays, with that deadline.
C15_Tombstone ==
    [][\A k \in Keys :
         /\ k \in last'.swept
              => (k \in DOMAIN expiry_map /\ expiry_map[k] <= now')
         /\ (/\ last'.op \in SweepOps
             /\ k \in DOMAIN kv
             /\ (k \notin DOMAIN expiry_map \/ expiry_map[k] > now')
             /\ ~(last'.op = "DELETE" /\ last'.key = k))
              => /\ k \in DOMAIN kv'
                 /\ k \in DOMAIN expiry_map
                      => (k \in DOMAIN expiry_map' /\ expiry_map'[k] = expiry_map[k])
                 /\ \A i \in DOMAIN expiry' : expiry'[i][1] > now]_vars

\* a sweep popped heap entries and removed no key: the only key is there
\* with its deadline ahead
C15_Witness ==
    /\ last.op \in SweepOps
    /\ last.popped >= 1
    /\ last.swept = {}
    /\ \E k \in Keys :
           /\ DOMAIN kv = {k}
           /\ k \in DOMAIN expiry_map
           /\ expiry_map[k] > now

\* the reading commands of the containers, and what each returns on an
\* empty container
EmptyRead(op) ==
    CASE op = "LPOP" -> RNone
      [] op = "HGET" -> RNone
      [] op = "SMEMBERS" -> RList({})

\* C16: LPOP, HGET or SMEMBERS on a key that is absent (or whose deadline
\* has passed) returns null / no member and leaves the empty container of
\* its type at the key; and while a key holds an empty container, EXISTS returns 1, INFO counts it, and a command of another
\* container type fails with WRONGTYPE.
C16_CreateIfMissing ==
    [][\A k \in Keys :
         /\ (/\ last'.op \in {"LPOP", "HGET", "SMEMBERS"}
             /\ last'.key = k
             /\ (k \notin DOMAIN kv \/ ~NotExpired(k)))
              => (/\ last'.res = EmptyRead(last'.op)
                  /\ k \in DOMAIN kv'
                  /\ kv'[k] = Value(ExpectedType(last'.op), EmptyOf(ExpectedType(last'.op))))
         /\ (/\ k \in DOMAIN kv
             /\ kv[k].data_type # KV
             /\ kv[k].value = EmptyOf(kv[k].data_type)
             /\ NotExpired(k))
              => (/\ (last'.op = "EXISTS" /\ last'.key = k) => last'.res = RInt(1)
                  /\ last'.op = "INFO"
                       => (last'.res.val >= 1 /\ k \in DOMAIN kv')
                  /\ (/\ last'.op \in TypedOps
                      /\ last'.key = k
                      /\ ExpectedType(last'.op) # kv[k].data_type)
                       => last'.res = WRONGTYPE)]_vars

\* LPOP on an absent key has returned null and left an empty list there
C16_Witness ==
    /\ last.op = "LPOP"
    /\ last.was = -1
    /\ last.res = RNone
    /\ kv[last.key] = Value(QUEUE, <<>>)

\* C19 (as stated): a command answered with an error frame creates no key
\* and changes no value: every key of the key-space after it was there
\* before, with the same value (the sweep it runs may remove expired keys);
\* HSET with a key and no field on an absent key leaves the key absent.
C19_Original ==
    [][last'.res.kind = "Error"
         => \A k \in DOMAIN kv' : k \in DOMAIN kv /\ kv'[k] = kv[k]]_vars

\* C21 (as stated): in every state between commands every key that has a
\* deadline in the expiry map is in the key-space: DELETE, FLUSHALL, the
\* sweep and the per-key expired check of GET, EXISTS and the typed commands
\* remove the deadline of every key they remove.
C21_Original == DOMAIN expiry_map \subseteq DOMAIN kv

(***************************************************************************)
(* SpecSnap: snapshots.  Clients work on the keys of SnapKeys with the     *)
(* string and list commands, EXPIRE, FLUSHALL, SAVE and RESTORE.           *)
(***************************************************************************)
NextSnap ==
    \/ Tick
    \/ CmdSet(SnapKeys)
    \/ CmdGet(SnapKeys)
    \/ CmdDelete(SnapKeys)
    \/ CmdLpush(SnapKeys)
    \/ CmdLpop(SnapKeys)
    \/ CmdExpire(SnapKeys)
    \/ CmdFlushAll
    \/ CmdSave
    \/ CmdRestore

SpecSnap == Init /\ [][NextSnap]_vars

\* C5: a RESTORE that returns 1 leaves the key-space (keys, tags, payloads,
\* list order) and the expiry map as they were when the file was saved,
\* whatever was executed since, FLUSHALL included; the heap holds exactly
\* the restored deadlines.
C5_SnapshotRoundTrip ==
    [][(last'.op = "RESTORE" /\ last'.res = RInt(1))
         => (/\ kv' = saved.kv
             /\ expiry_map' = saved.expiry_map
             /\ Len(expiry') = Cardinality(DOMAIN expiry_map')
             /\ \A k \in DOMAIN expiry_map' :
                    \E i \in DOMAIN expiry' : expiry'[i] = <<expiry_map'[k], k>>)]_vars

\* RESTORE after SAVE and FLUSHALL brought back a list of two elements and
\* its deadline, which lies ahead
C5_Witness ==
    /\ last.op = "RESTORE"
    /\ last.res = RInt(1)
    /\ saved.flushed
    /\ \E k \in DOMAIN kv :
           /\ kv[k] = Value(QUEUE, <<"b", "a">>)
           /\ k \in DOMAIN expiry_map
           /\ expiry_map[k] > now

\* C17: RESTORE returns 0 or 1; when it returns 0 the key-space, the
\* expiry map and the heap are what they were; it returns 1 only when a
\* snapshot file exists, and then the state is the one of the file.
C17_RestoreMissing ==
    [][last'.op = "RESTORE"
         => \/ /\ last'.res = RInt(0)
               /\ UNCHANGED <<kv, expiry, expiry_map>>
            \/ /\ last'.res = RInt(1)
               /\ "dump" \in DOMAIN disk
               /\ kv' = pickle_load(disk["dump"]).kv
               /\ expiry_map' = pickle_load(disk["dump"]).expiry_map]_vars

\* RESTORE of a path with no file returned 0 while a snapshot exists at
\* another path, and the list, its deadline and the heap entry are there
C17_Witness ==
    /\ last.op = "RESTORE"
    /\ last.res = RInt(0)
    /\ "dump" \in DOMAIN disk
    /\ pickle_load(disk["dump"]).kv # kv
    /\ \E k \in DOMAIN kv :
           /\ kv[k].data_type = QUEUE
           /\ k \in DOMAIN expiry_map
           /\ expiry # <<>>

(***************************************************************************)
(* SpecHeap: the expiry heap and the expiry map under every command that   *)
(* writes one of them, on the keys of Keys: EXPIRE, SET, DELETE, FLUSHALL, *)
(* SAVE and RESTORE, and GET for the sweep and the per-key check.          *)
(***************************************************************************)
\* SET of one value: what is stored does not reach the heap or the map
CmdSetOf(K, V) ==
    \E key \in K, value \in V :
        Done(kv_set(E, key, value), "SET", key, now, {}) /\ UNCHANGED files

NextHeap ==
    \/ Tick
    \/ CmdSetOf(Keys, {"a"})
    \/ CmdGet(Keys)
    \/ CmdDelete(Keys)
    \/ CmdExpire(Keys)
    \/ CmdFlushAll
    \/ CmdSave
    \/ CmdRestore

SpecHeap == Init /\ [][NextHeap]_vars

\* the heap holds the entry (eta, key)
InHeap(eta, key) == \E i \in DOMAIN expiry : expiry[i] = <<eta, key>>

\* C20: in every state every key of the expiry map has, for its deadline,
\* an entry in the expiry heap; and after a command that sweeps, no
\* deadline of the map is at or before the time of the sweep.
C20_HeapCoversMap ==
    /\ [](\A k \in DOMAIN expiry_map : InHeap(expiry_map[k], k))
    /\ [][last'.op \in SweepOps
            => \A k \in DOMAIN expiry_map' : expiry_map'[k] > now]_vars

\* RESTORE has rebuilt the heap from the two deadlines of a snapshot
C20_Witness ==
    /\ last.op = "RESTORE"
    /\ last.res = RInt(1)
    /\ DOMAIN expiry_map = Keys
    /\ Len(expiry) = 2
    /\ \A k \in Keys : InHeap(expiry_map[k], k)

(***************************************************************************)
(* The wire: requests as handle_request decodes them, frames as _write     *)
(* encodes them.                                                           *)
(***************************************************************************)
CRLF == "\r\n"

\* the requests of the clients of a pool server: an array of bulk strings
\* (the key of a command is the second element), <<>> for an empty array
PoolRequests ==
    {<<>>, <<"FOO">>, <<"SET", 1>>, <<"SET", 1, "a">>, <<"set", 1, "a">>,
     <<"LPUSH", 1, "a">>, <<"GET", 1>>, <<"QUIT">>, <<"SHUTDOWN">>}

\* the requests of the clients of a thread-per-connection server
ThreadRequests == {<<"FOO">>, <<"SET", 1, "a">>, <<"QUIT">>, <<"SHUTDOWN">>}

\* bytes.upper(), on the command names clients send
upper(s) ==
    CASE s = "set" -> "SET"
      [] s = "get" -> "GET"
      [] s = "quit" -> "QUIT"
      [] OTHER -> s

\* the keys of self.commands
commands ==
    {"SET", "GET", "DELETE", "EXISTS", "LPUSH", "LPOP", "HSET", "HGET", "SADD",
     "SMEMBERS", "EXPIRE", "FLUSHALL", "SAVE", "RESTORE", "INFO", "QUIT", "SHUTDOWN"}

\* raise ClientQuit() and raise Shutdown(), as results of the dispatch
ClientQuit == [kind |-> "ClientQuit", val |-> 0]
Shutdown == [kind |-> "Shutdown", val |-> 0]

\* what a command hands back to handle_connection: the engine, the files,
\* and the value returned or the exception raised
Resp(o, d) == [e |-> o.e, d |-> d, res |-> o.res]

\* a wrapped command called with too many or too few arguments after the
\* key: the wrapper runs, then the call of the method raises TypeError
bad_call(e, data_type, key, ts1, ts2) ==
    LET r == inner(e, data_type, key, ts1, ts2)
    IN IF ~r.ok THEN Out(r.e, WRONGTYPE) ELSE Out(r.e, ARITY)

\* the dict INFO returns: the four counters and the number of keys
info_dict(st, keys) ==
    [kind |-> "stats",
     val |-> <<st.active_connections, st.commands_processed, st.command_errors,
               st.connections, keys>>]

\* lines 371-377, and the call self.commands[cmd](*data[1:])
respond(e, d, st, data, ts1, ts2) ==
    IF Len(data) = 0 THEN Resp(Out(e, RError("Empty request")), d)
    ELSE LET cmd == upper(data[1])
             args == Tail(data)
             n == Len(args)
             raise == Resp(Out(e, ARITY), d)
         IN IF cmd \notin commands
            THEN Resp(Out(e, RError("Unknown command: b'" \o cmd \o "'")), d)
            ELSE CASE cmd = "SET" ->
                        IF n = 2 THEN Resp(kv_set(e, args[1], args[2]), d) ELSE raise
                   [] cmd = "GET" ->
                        IF n = 1 THEN Resp(kv_get(e, args[1], ts1, ts2), d) ELSE raise
                   [] cmd = "DELETE" ->
                        IF n = 1 THEN Resp(kv_delete(e, args[1], ts1), d) ELSE raise
                   [] cmd = "EXISTS" ->
                        IF n = 1 THEN Resp(kv_exists(e, args[1], ts1, ts2), d) ELSE raise
                   [] cmd = "LPUSH" ->
                        IF n >= 1 THEN Resp(lpush(e, args[1], Tail(args), ts1, ts2), d)
                        ELSE raise
                   [] cmd = "LPOP" ->
                        IF n = 1 THEN Resp(lpop(e, args[1], ts1, ts2), d)
                        ELSE IF n = 0 THEN raise
                        ELSE Resp(bad_call(e, QUEUE, args[1], ts1, ts2), d)
                   [] cmd = "HSET" ->
                        IF n = 3 THEN Resp(hset(e, args[1], args[2], args[3], ts1, ts2), d)
                        ELSE IF n = 0 THEN raise
                        ELSE Resp(bad_call(e, HASH, args[1], ts1, ts2), d)
                   [] cmd = "HGET" ->
                        IF n = 2 THEN Resp(hget(e, args[1], args[2], ts1, ts2), d)
                        ELSE IF n = 0 THEN raise
                        ELSE Resp(bad_call(e, HASH, args[1], ts1, ts2), d)
                   [] cmd = "SADD" ->
                        IF n >= 1 THEN Resp(sadd(e, args[1], Tail(args), ts1, ts2), d)
                        ELSE raise
                   [] cmd = "SMEMBERS" ->
                        IF n = 1 THEN Resp(smembers(e, args[1], ts1, ts2), d)
                        ELSE IF n = 0 THEN raise
                        ELSE Resp(bad_call(e, SET, args[1], ts1, ts2), d)
                   [] cmd = "EXPIRE" ->
                        IF n = 2 THEN Resp(expire(e, args[1], args[2], ts1), d) ELSE raise
                   [] cmd = "FLUSHALL" ->
                        IF n = 0 THEN Resp(flush_all(e), d) ELSE raise
                   [] cmd = "SAVE" ->
                        IF n = 1 THEN Resp(Out(e, RStr("OK")), save_to_disk(e, d, args[1]))
                        ELSE raise
                   [] cmd = "RESTORE" ->
                        IF n = 1 THEN Resp(restore_from_disk(e, d, args[1]), d) ELSE raise
                   [] cmd = "INFO" ->
                        IF n = 0
                        THEN LET o == info(e, ts1)
                             IN Resp(Out(o.e, info_dict(st, o.res.val)), d)
                        ELSE raise
                   [] cmd = "QUIT" ->
                        IF n = 0 THEN Resp(Out(e, ClientQuit), d) ELSE raise
                   [] cmd = "SHUTDOWN" ->
                        IF n = 0 THEN Resp(Out(e, Shutdown), d) ELSE raise

\* the bulk string frame of bytes, lines 96-100
bulk(b) == "$" \o ToString(Len(b)) \o CRLF \o b \o CRLF

\* every sequence that lists the members of S once: the orders in which a
\* set or a dict can be iterated
RECURSIVE Orders(_)
Orders(S) ==
    IF S = {} THEN {<<>>}
    ELSE UNION {{<<x>> \o rest : rest \in Orders(S \ {x})} : x \in S}

\* the frames of the items of a sequence of bytes, one after the other
RECURSIVE bulks(_)
bulks(items) ==
    IF items = <<>> THEN "" ELSE bulk(Head(items)) \o bulks(Tail(items))

\* the frames of the items of a dict of bytes, key then value
RECURSIVE pairs(_, _)
pairs(h, fields) ==
    IF fields = <<>> THEN ""
    ELSE bulk(Head(fields)) \o bulk(h[Head(fields)]) \o pairs(h, Tail(fields))

\* _write, lines 95-121: the byte strings a response can be encoded as
\* (one, but for a set and a dict, whose items come in iteration order)
Encodings(res) ==
    CASE res.kind \in {"bytes", "str"} -> {bulk(res.val)}
      [] res.kind = "int" -> {":" \o ToString(res.val) \o CRLF}
      [] res.kind = "Error" -> {"-" \o res.val \o CRLF}
      [] res.kind = "deque" ->
            {"*" \o ToString(Len(res.val)) \o CRLF \o bulks(res.val)}
      [] res.kind = "list" ->
            {"*" \o ToString(Cardinality(res.val)) \o CRLF \o bulks(o) :
                 o \in Orders(res.val)}
      [] res.kind = "set" ->
            {"&" \o ToString(Cardinality(res.val)) \o CRLF \o bulks(o) :
                 o \in Orders(res.val)}
      [] res.kind = "dict" ->
            {"%" \o ToString(Cardinality(DOMAIN res.val)) \o CRLF \o pairs(res.val, o) :
                 o \in Orders(DOMAIN res.val)}
      [] res.kind = "stats" ->
            {"%5" \o CRLF
             \o bulk("active_connections") \o ":" \o ToString(res.val[1]) \o CRLF
             \o bulk("commands_processed") \o ":" \o ToString(res.val[2]) \o CRLF
             \o bulk("command_errors") \o ":" \o ToString(res.val[3]) \o CRLF
             \o bulk("connections") \o ":" \o ToString(res.val[4]) \o CRLF
             \o bulk("keys") \o ":" \o ToString(res.val[5]) \o CRLF}
      [] res.kind = "None" -> {"$-1" \o CRLF}

(***************************************************************************)
(* handle_connection, lines 341-369: one handler per connection.  A        *)
(* handler stands at "read" (in handle_request), at "write" (in            *)
(* write_response), is "closed" (it returned) or "dead" (an exception left *)
(* handle_connection; the server that spawned it closes the socket).       *)
(* A step of a handler runs from one socket operation to the next.         *)
(***************************************************************************)
\* the handlers that run
Running == {c \in Conns : pc[c] \in {"read", "write"}}

\* Error(str(e)) for the OSError a socket operation raises
IOError == RError("OSError")

\* the handler leaves the except clauses without counting the error
count_error_Skipped(st) == st

\* lines 361 and 364
count_error(st) == [st EXCEPT !.command_errors = @ + 1]

\* lines 367-369, after a break
close(c) ==
    /\ pc' = [pc EXCEPT ![c] = "closed"]
    /\ stats' = [stats EXCEPT !.active_connections = @ - 1]

\* an exception leaves handle_connection: nothing after the raise runs
die(c) ==
    /\ pc' = [pc EXCEPT ![c] = "dead"]
    /\ UNCHANGED stats

\* the listener hands a connection to a new handler, lines 342-345.
\* Pool(max_clients) makes the pool server wait for a free slot;
\* ThreadingMixIn starts a thread for every connection.
Accept(c) ==
    /\ pc[c] = "new"
    /\ accepting
    /\ use_gevent => Cardinality(Running) < MaxClients
    /\ pc' = [pc EXCEPT ![c] = "read"]
    /\ stats' = [stats EXCEPT !.active_connections = @ + 1, !.connections = @ + 1]
    /\ UNCHANGED <<kv, expiry, expiry_map, now, files, last, thr, codec,
                   use_gevent, accepting, stopped, resp, sent, nreq>>

\* lines 348-364: a request is read and run.  self.server.shutdown() stops
\* the socketserver listener (serve_forever returns, the handler threads go
\* on).  The pool server's StreamServer is gevent's, whose method to stop
\* the listener is stop(): the call either stops the listener or raises
\* AttributeError inside the except clause, which leaves handle_connection.
ReadRequest(c, R) ==
    /\ pc[c] = "read"
    /\ nreq[c] < MaxReqs
    /\ \E data \in R, ts2 \in Later :
         LET r == respond(E, disk, stats, data, now, ts2)
         IN /\ kv' = r.e.kv
            /\ expiry' = r.e.expiry
            /\ expiry_map' = r.e.expiry_map
            /\ disk' = r.d
            /\ now' = ts2
            /\ nreq' = [nreq EXCEPT ![c] = @ + 1]
            /\ CASE r.res.kind = "ClientQuit" ->
                      close(c) /\ UNCHANGED <<resp, accepting, stopped>>
                 [] r.res.kind = "Shutdown" ->
                      /\ stopped' = stopped \cup {c}
                      /\ \/ accepting' = FALSE /\ close(c) /\ UNCHANGED resp
                         \/ use_gevent /\ die(c) /\ UNCHANGED <<resp, accepting>>
                 [] r.res.kind = "Error" ->
                      /\ resp' = [resp EXCEPT ![c] = r.res]
                      /\ stats' = count_error(stats)
                      /\ pc' = [pc EXCEPT ![c] = "write"]
                      /\ UNCHANGED <<accepting, stopped>>
                 [] OTHER ->
                      /\ resp' = [resp EXCEPT ![c] = r.res]
                      /\ pc' = [pc EXCEPT ![c] = "write"]
                      /\ UNCHANGED <<stats, accepting, stopped>>
    /\ UNCHANGED <<saved, last, thr, codec, use_gevent, sent>>

\* lines 352-353: the client has closed its side
ReadEOF(c) ==
    /\ pc[c] = "read"
    /\ close(c)
    /\ UNCHANGED <<kv, expiry, expiry_map, now, files, last, thr, codec,
                   use_gevent, accepting, stopped, resp, sent, nreq>>

\* lines 362-364: reading the socket raises (a reset, a frame that does
\* not parse); the exception becomes the response
ReadFails(c) ==
    /\ pc[c] = "read"
    /\ nreq[c] < MaxReqs
    /\ nreq' = [nreq EXCEPT ![c] = @ + 1]
    /\ resp' = [resp EXCEPT ![c] = IOError]
    /\ stats' = count_error(stats)
    /\ pc' = [pc EXCEPT ![c] = "write"]
    /\ UNCHANGED <<kv, expiry, expiry_map, now, files, last, thr, codec,
                   use_gevent, accepting, stopped, sent>>

\* lines 365-366: the response is written and the round counted
WriteOk(c) ==
    /\ pc[c] = "write"
    /\ \E frame \in Encodings(resp[c]) :
         sent' = [sent EXCEPT ![c] = Append(@, frame)]
    /\ stats' = [stats EXCEPT !.commands_processed = @ + 1]
    /\ pc' = [pc EXCEPT ![c] = "read"]
    /\ UNCHANGED <<kv, expiry, expiry_map, now, files, last, thr, codec,
                   use_gevent, accepting, stopped, resp, nreq>>

\* line 365 raises (the client is gone): write_response stands outside the
\* try, the exception leaves handle_connection
WriteFails(c) ==
    /\ pc[c] = "write"
    /\ die(c)
    /\ UNCHANGED <<kv, expiry, expiry_map, now, files, last, thr, codec,
                   use_gevent, accepting, stopped, resp, sent, nreq>>

(***************************************************************************)
(* SpecPool: the pool server (use_gevent and gevent installed).            *)
(***************************************************************************)
NextPool ==
    \E c \in Conns :
        \/ Accept(c)
        \/ ReadRequest(c, PoolRequests)
        \/ ReadEOF(c)
        \/ ReadFails(c)
        \/ WriteOk(c)
        \/ WriteFails(c)

SpecPool == Init /\ [][NextPool]_vars

(***************************************************************************)
(* SpecThreads: the thread-per-connection server.                          *)
(***************************************************************************)
InitThreads == InitEngine /\ use_gevent = FALSE /\ wdata = RNone

NextThreads ==
    \E c \in Conns :
        \/ Accept(c)
        \/ ReadRequest(c, ThreadRequests)
        \/ ReadEOF(c)
        \/ ReadFails(c)
        \/ WriteOk(c)
        \/ WriteFails(c)

SpecThreads == InitThreads /\ [][NextThreads]_vars

(***************************************************************************)
(* SpecRace: two handler threads of the thread-per-connection server each  *)
(* run one container command.  No lock is taken anywhere in dblite.py: a   *)
(* thread can be preempted between any two statements of the wrapper       *)
(* (lines 205-223) and of the method it wraps, and each step below is one  *)
(* such statement.                                                         *)
(***************************************************************************)
\* the commands the two threads run: <<name, key, args>>
RaceCmds ==
    {<<"LPUSH", 1, <<"a">>>>, <<"LPUSH", 1, <<"b">>>>,
     <<"HSET", 1, <<"f", "a">>>>, <<"SADD", 1, <<"a">>>>}

\* AttributeError: the container has no such method
NoMethod == RError("AttributeError")
\* TypeError: the container does not take a bytes subscript
NoItem == RError("TypeError: item assignment")

\* the thread moves on
Goto(t, label) == thr' = [thr EXCEPT ![t].pc = label]

\* the thread's command ends with a result or an exception
Return(t, res) == thr' = [thr EXCEPT ![t].pc = "done", ![t].res = res]

\* the handler thread calls self.commands[cmd](*data[1:]), line 377
Call(t) ==
    /\ thr[t].pc = "idle"
    /\ \E cmd \in RaceCmds :
         thr' = [thr EXCEPT ![t] = [pc |-> "sweep", op |-> cmd[1], key |-> cmd[2],
                                    args |-> cmd[3],
                                    data_type |-> ExpectedType(cmd[1]),
                                    i |-> 1, added |-> 0, res |-> RNone]]
    /\ UNCHANGED <<kv, expiry, expiry_map, now, files, last, server, codec>>

\* line 206: self.clean_expired()
StepSweep(t) ==
    /\ thr[t].pc = "sweep"
    /\ LET c == clean_expired(E, now)
       IN /\ kv' = c.kv
          /\ expiry' = c.expiry
          /\ expiry_map' = c.expiry_map
    /\ Goto(t, "expired")
    /\ UNCHANGED <<now, files, last, server, codec>>

\* lines 207-208: if self.check_expired(key): self.kv.pop(key, None)
StepExpired(t) ==
    /\ thr[t].pc = "expired"
    /\ kv' = IF check_expired(E, thr[t].key, now) THEN DictPop(kv, thr[t].key) ELSE kv
    /\ Goto(t, "check")
    /\ UNCHANGED <<expiry, expiry_map, now, files, last, server, codec>>

\* lines 209-212: the key is there with the command's type, with another
\* type (WRONGTYPE), or missing
StepCheck(t) ==
    /\ thr[t].pc = "check"
    /\ IF thr[t].key \in DOMAIN kv
       THEN IF kv[thr[t].key].data_type # thr[t].data_type
            THEN Return(t, WRONGTYPE)
            ELSE Goto(t, "method")
       ELSE Goto(t, "create")
    /\ UNCHANGED <<kv, expiry, expiry_map, now, files, last, server, codec>>

\* lines 213-222: self.kv[key] = Value(data_type, val)
StepCreate(t) ==
    /\ thr[t].pc = "create"
    /\ kv' = DictSet(kv, thr[t].key, Value(thr[t].data_type, EmptyOf(thr[t].data_type)))
    /\ Goto(t, "method")
    /\ UNCHANGED <<expiry, expiry_map, now, files, last, server, codec>>

\* line 258: self.kv[key].value.extendleft(values)
StepExtendleft(t) ==
    /\ thr[t].pc = "method" /\ thr[t].op = "LPUSH"
    /\ LET v == kv[thr[t].key]
       IN IF v.data_type = QUEUE
          THEN /\ kv' = DictSet(kv, thr[t].key, Value(QUEUE, extendleft(v.value, thr[t].args)))
               /\ Goto(t, "len")
          ELSE /\ Return(t, NoMethod)
               /\ UNCHANGED kv
    /\ UNCHANGED <<expiry, expiry_map, now, files, last, server, codec>>

\* the members of a container, as the in operator of python sees them
Members(v) ==
    CASE v.data_type = SET -> v.value
      [] v.data_type = HASH -> DOMAIN v.value
      [] v.data_type = QUEUE -> {v.value[j] : j \in 1..Len(v.value)}

\* len() of a container
Size(v) == IF v.data_type = QUEUE THEN Len(v.value) ELSE Cardinality(Members(v))

\* line 259: return len(self.kv[key].value)
StepLen(t) ==
    /\ thr[t].pc = "len"
    /\ LET v == kv[thr[t].key]
       IN Return(t, RInt(Size(v)))
    /\ UNCHANGED <<kv, expiry, expiry_map, now, files, last, server, codec>>

\* lines 270-271: self.kv[key].value[field] = value; return 1
StepSetItem(t) ==
    /\ thr[t].pc = "method" /\ thr[t].op = "HSET"
    /\ LET v == kv[thr[t].key]
       IN IF v.data_type = HASH
          THEN /\ kv' = DictSet(kv, thr[t].key,
                                Value(HASH, DictSet(v.value, thr[t].args[1], thr[t].args[2])))
               /\ Return(t, RInt(1))
          ELSE /\ Return(t, NoItem)
               /\ UNCHANGED kv
    /\ UNCHANGED <<expiry, expiry_map, now, files, last, server, codec>>

\* lines 279-280 and 284: the next member is tested, or the count returned
StepNotIn(t) ==
    /\ thr[t].pc = "method" /\ thr[t].op = "SADD"
    /\ IF thr[t].i > Len(thr[t].args)
       THEN Return(t, RInt(thr[t].added))
       ELSE IF thr[t].args[thr[t].i] \notin Members(kv[thr[t].key])
            THEN Goto(t, "add")
            ELSE thr' = [thr EXCEPT ![t].i = @ + 1]
    /\ UNCHANGED <<kv, expiry, expiry_map, now, files, last, server, codec>>

\* lines 281-282: self.kv[key].value.add(member); added += 1
StepAdd(t) ==
    /\ thr[t].pc = "add"
    /\ LET v == kv[thr[t].key]
       IN IF v.data_type = SET
          THEN /\ kv' = DictSet(kv, thr[t].key,
                                Value(SET, v.value \cup {thr[t].args[thr[t].i]}))
               /\ thr' = [thr EXCEPT ![t].pc = "method", ![t].i = @ + 1,
                                     ![t].added = @ + 1]
          ELSE /\ Return(t, NoMethod)
               /\ UNCHANGED kv
    /\ UNCHANGED <<expiry, expiry_map, now, files, last, server, codec>>

NextRace ==
    \E t \in Threads :
        \/ Call(t)
        \/ StepSweep(t)
        \/ StepExpired(t)
        \/ StepCheck(t)
        \/ StepCreate(t)
        \/ StepExtendleft(t)
        \/ StepLen(t)
        \/ StepSetItem(t)
        \/ StepNotIn(t)
        \/ StepAdd(t)

SpecRace == InitThreads /\ [][NextRace]_vars

\* the command of a thread, run from start to end on engine e
RunWhole(e, th) ==
    CASE th.op = "LPUSH" -> lpush(e, th.key, th.args, now, now)
      [] th.op = "HSET" -> hset(e, th.key, th.args[1], th.args[2], now, now)
      [] th.op = "SADD" -> sadd(e, th.key, th.args, now, now)

\* the engine and the two results are those of running first's command,
\* then second's, on the engine __init__ builds
SerialOrder(first, second) ==
    LET o1 == RunWhole(Engine(EmptyDict, <<>>, EmptyDict), thr[first])
        o2 == RunWhole(o1.e, thr[second])
    IN /\ E = o2.e
       /\ thr[first].res = o1.res
       /\ thr[second].res = o2.res

\* C4 (as stated): once both threads have run their commands, the engine
\* state and both results are those of one of the two sequential executions.
C4_Original ==
    (\A t \in Threads : thr[t].pc = "done")
        => (SerialOrder(1, 2) \/ SerialOrder(2, 1))

(***************************************************************************)
(* Claims on the connection handler.                                       *)
(***************************************************************************)
\* C8 (as stated): in every state of the thread-per-connection server,
\* active_connections is the number of connections opened and not closed.
C8_Original == stats.active_connections = Cardinality(Running)

\* C10 (as stated): in every state of the thread-per-connection server, at
\* most max_clients handlers run.
C10_Original == Cardinality(Running) <= MaxClients

\* C9: a round of the pool server that ends in a command-level error counts
\* one error when the command has run; the write that follows appends the
\* one error frame of that response to what the connection was sent, counts
\* the round and no error, and takes the handler back to reading (the
\* handler leaves the round another way only when the socket fails); and the
\* response of any round is the one respond gives for the request on the
\* engine as it stands, whatever the connection was answered before.
C9_ErrorRound ==
    [][\A c \in Conns :
         /\ (pc[c] = "read" /\ pc'[c] = "write")
              => /\ resp'[c] # IOError
                      => \E data \in PoolRequests :
                            resp'[c] = respond(E, disk, stats, data, now, now').res
                 /\ sent'[c] = sent[c]
                 /\ resp'[c].kind = "Error"
                      => stats'.command_errors = stats.command_errors + 1
         /\ (pc[c] = "write" /\ resp[c].kind = "Error" /\ pc'[c] # pc[c])
              => \/ /\ pc'[c] = "read"
                    /\ sent'[c] = Append(sent[c], "-" \o resp[c].val \o CRLF)
                    /\ stats'.command_errors = stats.command_errors
                    /\ stats'.commands_processed = stats.commands_processed + 1
                 \/ /\ pc'[c] = "dead"
                    /\ sent'[c] = sent[c]]_vars

\* a connection was answered WRONGTYPE, then OK for the SET it sent next,
\* and the key holds what that SET stored
C9_Witness ==
    \E c \in Conns :
        /\ sent[c] = <<"-" \o WRONGTYPE.val \o CRLF, bulk("OK")>>
        /\ stats.command_errors = 1
        /\ pc[c] = "read"
        /\ 1 \in DOMAIN kv /\ kv[1] = Value(KV, "a")

\* C18 (as stated): in every state of the pool server, once a handler has
\* been sent SHUTDOWN the listener accepts no further connection, and that
\* handler has closed its connection (lines 367-369 have run) having written
\* a response to every request it read but the SHUTDOWN.
C18_Original ==
    \A c \in stopped :
        /\ ~accepting
        /\ pc[c] = "closed"
        /\ Len(sent[c]) = nreq[c] - 1

(***************************************************************************)
(* The codec, ProtocolHandler lines 36-121, byte by byte: a byte string is *)
(* a sequence of one-character strings, so that what _write writes can be  *)
(* read back by handle_request.  A value is a record of its python kind    *)
(* and its content: bytes (characters), int, float (in tenths), None,      *)
(* Error (the characters of its message), list (sequence), dict            *)
(* (function), set.                                                        *)
(***************************************************************************)
\* the longest list and the largest set or dict written
MaxItems == 2

WBytes(b) == [kind |-> "bytes", val |-> b]
WInt(n) == [kind |-> "int", val |-> n]
WFloat(tenths) == [kind |-> "float", val |-> tenths]
WError(msg) == [kind |-> "Error", val |-> msg]
WList(items) == [kind |-> "list", val |-> items]
WDict(d) == [kind |-> "dict", val |-> d]
WSet(S) == [kind |-> "set", val |-> S]

\* the values that can be members of a set and keys of a dict
WireKeys ==
    {WBytes(<<>>), WBytes(<<"a">>), WBytes(<<"\r", "\n">>),
     WInt(-1), WInt(0), WInt(12), WFloat(15), RNone}

\* 1.5, -0.5 and 2.0, an error, and the other scalars
WireScalars ==
    WireKeys \cup {WFloat(-5), WFloat(20), WError(<<"E", "R", "R", " ", "x">>)}

\* the subsets of S of at most MaxItems members
Few(S) == {T \in SUBSET S : Cardinality(T) <= MaxItems}

\* containers of scalars
WireContainers ==
    {WList(<<>>), WList(<<WInt(0), RNone>>)}
    \cup {WSet(T) : T \in Few(WireKeys)}
    \cup {WDict(d) : d \in UNION {[D -> {WBytes(<<"a">>), WFloat(15), WList(<<WInt(0)>>)}] :
                                     D \in Few({WBytes(<<"a">>), WInt(0)})}}

\* the sequences over S of at most MaxItems members
UpTo(S) == UNION {[1..n -> S] : n \in 0..MaxItems}

\* the values written: scalars, containers, and lists of these
WireValues ==
    WireScalars \cup WireContainers
    \cup {WList(items) : items \in UpTo(WireScalars \cup {WList(<<WInt(0), RNone>>),
                                                           WSet({WInt(12)})})}

CRLFc == <<"\r", "\n">>
Digits == <<"0", "1", "2", "3", "4", "5", "6", "7", "8", "9">>

\* b'%d' % n, for n >= 0
RECURSIVE format_nat(_)
format_nat(n) ==
    IF n < 10 THEN <<Digits[n + 1]>>
    ELSE format_nat(n \div 10) \o <<Digits[(n % 10) + 1]>>

\* b'%d' % n
format_d(n) == IF n < 0 THEN <<"-">> \o format_nat(-n) ELSE format_nat(n)

\* what %d makes of a float: its integer part, towards zero
trunc(tenths) == IF tenths < 0 THEN -((-tenths) \div 10) ELSE tenths \div 10

\* line 102: buf.write(b':%d\r\n' % data)
write_number(data) ==
    <<":">> \o format_d(IF data.kind = "float" THEN trunc(data.val) ELSE data.val) \o CRLFc

\* the keys and values of a dict, in the order o of its keys
RECURSIVE items_of(_, _)
items_of(d, o) ==
    IF o = <<>> THEN <<>> ELSE <<Head(o), d[Head(o)]>> \o items_of(d, Tail(o))

\* _write, lines 95-121: the byte strings written for data (one, but for a
\* set and a dict, whose items are written in iteration order)
RECURSIVE write(_)
RECURSIVE write_all(_)
write(data) ==
    CASE data.kind = "bytes" ->
            {<<"$">> \o format_d(Len(data.val)) \o CRLFc \o data.val \o CRLFc}
      [] data.kind \in {"int", "float"} -> {write_number(data)}
      [] data.kind = "Error" -> {<<"-">> \o data.val \o CRLFc}
      [] data.kind = "list" ->
            {<<"*">> \o format_d(Len(data.val)) \o CRLFc \o body :
                 body \in write_all(data.val)}
      [] data.kind = "dict" ->
            UNION {{<<"%">> \o format_d(Len(o)) \o CRLFc \o body :
                        body \in write_all(items_of(data.val, o))} :
                   o \in Orders(DOMAIN data.val)}
      [] data.kind = "set" ->
            UNION {{<<"&">> \o format_d(Len(o)) \o CRLFc \o body :
                        body \in write_all(o)} :
                   o \in Orders(data.val)}
      [] data.kind = "None" -> {<<"$", "-", "1">> \o CRLFc}
      [] OTHER -> {<<"+", "O", "K">> \o CRLFc}

\* the frames of the items of a sequence, one after the other
write_all(items) ==
    IF items = <<>> THEN {<<>>}
    ELSE {first \o rest : first \in write(Head(items)), rest \in write_all(Tail(items))}

\* what a decoder hands back: the value and the bytes not read, or the
\* exception raised
Got(data, sf) == [raised |-> "none", data |-> data, sf |-> sf]
Raise(exception) == [raised |-> exception, data |-> RNone, sf |-> <<>>]

\* sf.read(n)
read(sf, n) ==
    IF Len(sf) <= n THEN Got(sf, <<>>)
    ELSE Got(SubSeq(sf, 1, n), SubSeq(sf, n + 1, Len(sf)))

\* the number of bytes of the first line of sf, its newline included
RECURSIVE line_len(_)
line_len(sf) ==
    IF sf = <<>> THEN 0
    ELSE IF Head(sf) = "\n" THEN 1
    ELSE 1 + line_len(Tail(sf))

\* sf.readline()
readline(sf) == read(sf, line_len(sf))

\* line.rstrip(b'\r\n'): every trailing \r and \n goes
RECURSIVE rstrip(_)
rstrip(line) ==
    IF line # <<>> /\ line[Len(line)] \in {"\r", "\n"}
    THEN rstrip(SubSeq(line, 1, Len(line) - 1))
    ELSE line

IsDigits(s) == s # <<>> /\ \A i \in DOMAIN s : \E d \in DOMAIN Digits : Digits[d] = s[i]

RECURSIVE nat_of(_, _)
nat_of(s, acc) ==
    IF s = <<>> THEN acc
    ELSE nat_of(Tail(s), 10 * acc + ((CHOOSE d \in DOMAIN Digits : Digits[d] = Head(s)) - 1))

\* the text is a decimal integer, with or without a sign
IsInt(s) == IsDigits(s) \/ (s # <<>> /\ Head(s) = "-" /\ IsDigits(Tail(s)))

\* int(s), where IsInt(s)
int_of(s) == IF Head(s) = "-" THEN -nat_of(Tail(s), 0) ELSE nat_of(s, 0)

\* the position of the first "." of s, 0 when there is none
RECURSIVE find_dot(_)
find_dot(s) ==
    IF s = <<>> THEN 0
    ELSE IF Head(s) = "." THEN 1
    ELSE IF find_dot(Tail(s)) = 0 THEN 0 ELSE 1 + find_dot(Tail(s))

\* lines 64-68: float(number) when it holds a ".", int(number) otherwise
\* (floats with one decimal, which is what the tenths can hold)
handle_integer(sf) ==
    LET l == readline(sf)
        number == rstrip(l.data)
        dot == find_dot(number)
    IN IF dot = 0
       THEN IF IsInt(number) THEN Got(WInt(int_of(number)), l.sf) ELSE Raise("ValueError")
       ELSE LET whole == SubSeq(number, 1, dot - 1)
                frac == SubSeq(number, dot + 1, Len(number))
            IN IF IsInt(whole) /\ IsDigits(frac) /\ Len(frac) = 1
               THEN Got(WFloat(IF Head(whole) = "-"
                               THEN 10 * int_of(whole) - nat_of(frac, 0)
                               ELSE 10 * int_of(whole) + nat_of(frac, 0)), l.sf)
               ELSE Raise("ValueError")

\* lines 70-74
handle_string(sf) ==
    LET l == readline(sf)
        length == rstrip(l.data)
    IN IF ~IsInt(length) THEN Raise("ValueError")
       ELSE IF int_of(length) = -1 THEN Got(RNone, l.sf)
       ELSE LET r == read(l.sf, int_of(length) + 2)
            IN Got(WBytes(SubSeq(r.data, 1, Len(r.data) - 2)), r.sf)

\* list, dict and set cannot be hashed
Hashable(v) == v.kind \notin {"list", "dict", "set"}

\* dict(zip(elements[::2], elements[1::2])): a later pair replaces an
\* earlier one with the same key
RECURSIVE dict_of(_, _)
dict_of(elements, d) ==
    IF Len(elements) < 2 THEN d
    ELSE dict_of(Tail(Tail(elements)), DictSet(d, elements[1], elements[2]))

\* the keys of the pairs of elements
RECURSIVE keys_of(_)
keys_of(elements) ==
    IF Len(elements) < 2 THEN {} ELSE {elements[1]} \cup keys_of(Tail(Tail(elements)))

\* the members of a sequence
Range(s) == {s[i] : i \in DOMAIN s}

\* lines 48-56, with the decoders of lines 58-87 it dispatches to
RECURSIVE handle_request(_)
RECURSIVE read_n(_, _, _)
handle_request(sf) ==
    IF sf = <<>> THEN Raise("EOFError")
    ELSE LET first_byte == Head(sf)
             rest == Tail(sf)
             l == readline(rest)
             head == rstrip(l.data)
             elements(k) == IF IsInt(head) THEN read_n(l.sf, k * int_of(head), <<>>)
                            ELSE Raise("ValueError")
         IN CASE first_byte = "+" -> Got(WBytes(head), l.sf)
              [] first_byte = "-" -> Got(WError(head), l.sf)
              [] first_byte = ":" -> handle_integer(rest)
              [] first_byte = "$" -> handle_string(rest)
              [] first_byte = "*" ->
                    LET r == elements(1)
                    IN IF r.raised # "none" THEN r ELSE Got(WList(r.data), r.sf)
              [] first_byte = "%" ->
                    LET r == elements(2)
                    IN IF r.raised # "none" THEN r
                       ELSE IF \E k \in keys_of(r.data) : ~Hashable(k) THEN Raise("TypeError")
                       ELSE Got(WDict(dict_of(r.data, EmptyDict)), r.sf)
              [] first_byte = "&" ->
                    LET r == elements(1)
                    IN IF r.raised # "none" THEN r
                       ELSE IF \E x \in Range(r.data) : ~Hashable(x) THEN Raise("TypeError")
                       ELSE Got(WSet(Range(r.data)), r.sf)
              [] OTHER -> Got(WBytes(<<first_byte>> \o head), l.sf)

\* [self.handle_request(sf) for _ in range(num)]
read_n(sf, num, acc) ==
    IF num <= 0 THEN Got(acc, sf)
    ELSE LET r == handle_request(sf)
         IN IF r.raised # "none" THEN r
            ELSE read_n(r.sf, num - 1, Append(acc, r.data))

(***************************************************************************)
(* SpecCodec: a value is written by write_response (lines 89-93) and the   *)
(* bytes are read back by handle_request, as Client.execute reads what the *)
(* server wrote.                                                           *)
(***************************************************************************)
InitCodec == InitEngine /\ use_gevent = TRUE /\ wdata \in WireValues

\* lines 89-93
write_response ==
    /\ wbuf = <<>>
    /\ wbuf' \in write(wdata)
    /\ UNCHANGED <<kv, expiry, expiry_map, now, files, last, server, thr, wdata, rdata>>

\* the reader decodes the frame
ReadBack ==
    /\ wbuf # <<>>
    /\ rdata = Unread
    /\ rdata' = handle_request(wbuf)
    /\ UNCHANGED <<kv, expiry, expiry_map, now, files, last, server, thr, wdata, wbuf>>

NextCodec == write_response \/ ReadBack

SpecCodec == InitCodec /\ [][NextCodec]_vars

\* C12 (as stated): what handle_request decodes from the frame written for
\* a value is that value, of the same kind, and the frame is read whole.
C12_Original ==
    rdata # Unread
        => (rdata.raised = "none" /\ rdata.data = wdata /\ rdata.sf = <<>>)

====
